---- MODULE Spec2Model ----
(***************************************************************************)
(* CoinJoin detection and refinement pipeline (uptuk/thesis-msc).          *)
(*                                                                         *)
(*   1_parse_coinjoins.py   Detector   (CoinJoinParser and the block scan) *)
(*   3_refine_wasabi.py     Wasabi refiner and its accounting              *)
(*   3_refine_samourai.py   Samourai refiner and the Tx0 follow-up list    *)
(*                                                                         *)
(* Every program is a state machine of its own: SpecDetector, SpecWasabi   *)
(* and SpecSamourai run one program each, SpecHeuristics calls the         *)
(* Detector's heuristics on one transaction, SpecEnrich runs               *)
(* 2_get_inputs_for_txs.py, SpecPipeline runs the Detector and then the    *)
(* Wasabi refiner on what it found, Spec runs any one of them.             *)
(* Amounts are integer satoshis.  The Python constants are float products  *)
(* (0.1 * SATOSHI_IN_BTC, ...); each of them is exactly the integer given  *)
(* here, so comparing an integer amount with them is integer comparison.   *)
(* An address is a tuple of one-character strings, so that lower() and     *)
(* startswith() are computed and not assumed.                              *)
(***************************************************************************)
EXTENDS Integers, Sequences, FiniteSets, TLC

VARIABLES
    prog,               \* which program this run executes
    \* ---- 3_refine_wasabi.py
    w_pc,               \* "loop" | "done"
    txs_inputs,         \* the enriched records, in file order (tx ids)
    w_idx,              \* number of records the loop has processed
    metric_stats,       \* fp_filtered, fp_unfiltered, tp, fn, heuristic_positive
    filter_stats,       \* gambling, reuse, output_exact, output_edge
    disallowed_values,  \* set of tx ids
    filtered_ids,       \* set of tx ids
    new_txs,            \* tx id -> position in txs_inputs of the record kept
    warned,             \* 'UNACCOUNTED FILTER' was logged
    w_out,              \* the keys dumped to out_refined
    results,            \* the summary printed at the end
    \* ---- 3_refine_samourai.py
    s_pc,               \* "dict" | "loop" | "done"
    raw_txs_w_inputs,       \* the enriched records, in file order (tx ids)
    raw_txs_w_inputs_dict,  \* keys of the dict, in insertion order
    s_idx,              \* number of dict items the loop has processed
    refined_txs,        \* set of accepted tx ids (keys of the dict dumped)
    tx0_txids,          \* the follow-up list
    \* ---- 1_parse_coinjoins.py
    d_pc,               \* "scan" | "written"
    d_total,            \* number of transactions the blocks of the range hold
    scanned,            \* the transactions the scan has classified: <<tx, height>>
    wasabi_txs,         \* txid -> cj
    samourai_txs,       \* txid -> cj
    result,             \* what is_coin_join returned in the last iteration
    cj_pre,             \* is_coin_join's local cj of that call before the height checks
    d_err,              \* the scan was ended by an exception
    \* ---- 1_parse_coinjoins.py: the heuristics of CoinJoinParser on one transaction
    h_pc,               \* "call" | "returned"
    h_tx,               \* the transaction passed
    h_res,              \* what each heuristic returned
    \* ---- 2_get_inputs_for_txs.py
    e_pc,               \* "loop" | "fetch" | "written"
    e_txs_raw,          \* the items of txs_raw, in key order: <<tx id, value>>
    e_size,             \* the size chunks is called with (None: the default)
    e_it,               \* chunks: the items the iterator it has not yielded yet
    e_chunks,           \* the chunks yielded so far
    e_session,          \* the aiohttp session of the current fetch
    e_requested,        \* tx ids get_tx_hash has been called for
    e_pending,          \* requests of the current batch not yet answered
    e_responses,        \* tx ids whose request returned a record
    e_log,              \* the batches 'Error fetching transactions' was logged for
    txs_parsed,         \* the list the fetched records are collected in
    e_out               \* the list dumped at the end

wvars == <<w_pc, txs_inputs, w_idx, metric_stats, filter_stats, disallowed_values,
           filtered_ids, new_txs, warned, w_out, results>>
svars == <<s_pc, raw_txs_w_inputs, raw_txs_w_inputs_dict, s_idx, refined_txs, tx0_txids>>
dvars == <<d_pc, d_total, scanned, wasabi_txs, samourai_txs, result, cj_pre, d_err>>
hvars == <<h_pc, h_tx, h_res>>
evars == <<e_pc, e_txs_raw, e_size, e_it, e_chunks, e_session, e_requested, e_pending,
           e_responses, e_log, txs_parsed, e_out>>
vars == <<prog, wvars, svars, dvars, hvars, evars>>

(***************************************************************************)
(* Bounds of the model.                                                    *)
(***************************************************************************)
MaxTxs == 2         \* records in one refinement input file
MaxScan == 2        \* transactions in one detection scan
MaxIds == 3         \* transactions in one enrichment input file
MaxSize == 2        \* largest size chunks is called with, the default apart

(***************************************************************************)
(* utils.py                                                                *)
(***************************************************************************)
SATOSHI_IN_BTC == 100000000

Wasabi_FIRST_BLOCK == 530500
Wasabi_APPROX_BASE_DENOM == SATOSHI_IN_BTC \div 10              \* 0.1 * SATOSHI_IN_BTC
Wasabi_MAX_PRECISION == (2 * SATOSHI_IN_BTC) \div 100           \* 0.02 * SATOSHI_IN_BTC

Wasabi_COORD_ADDRESSES ==
    { <<"b","c","1","q","s","6","0","4","c","7","j","v","6","a","m","k","4","c","x","q","l",
        "n","v","u","x","v","2","6","h","v","3","e","4","8","c","d","s","4","m","0","e","w">>,
      <<"b","c","1","q","a","2","4","t","s","g","c","h","v","u","x","s","a","c","c","p","8",
        "v","r","n","k","f","d","8","5","h","r","c","p","a","f","g","2","0","k","m","j","w">> }

Samourai_FIRST_BLOCK == 570000
Samourai_WHIRLPOOL_SIZES ==
    << SATOSHI_IN_BTC \div 100,             \* 0.01 * SATOSHI_IN_BTC
       (5 * SATOSHI_IN_BTC) \div 100,       \* 0.05 * SATOSHI_IN_BTC
       SATOSHI_IN_BTC \div 2 >>             \* 0.5  * SATOSHI_IN_BTC
Samourai_MAX_POOL_FEE == (11 * SATOSHI_IN_BTC) \div 10000       \* 0.0011 * SATOSHI_IN_BTC

(***************************************************************************)
(* Python built-ins used by the code.                                      *)
(***************************************************************************)
UpperChars == <<"A","B","C","D","E","F","G","H","I","J","K","L","M",
                "N","O","P","Q","R","S","T","U","V","W","X","Y","Z">>
LowerChars == <<"a","b","c","d","e","f","g","h","i","j","k","l","m",
                "n","o","p","q","r","s","t","u","v","w","x","y","z">>

\* str.lower() on one character
LowerChar(c) ==
    IF \E i \in DOMAIN UpperChars : UpperChars[i] = c
    THEN LowerChars[CHOOSE i \in DOMAIN UpperChars : UpperChars[i] = c]
    ELSE c

\* str.lower()
lower(s) == [i \in DOMAIN s |-> LowerChar(s[i])]

\* str.startswith(prefix)
startswith(s, prefix) ==
    /\ Len(prefix) <= Len(s)
    /\ SubSeq(s, 1, Len(prefix)) = prefix

\* abs()
abs(n) == IF n < 0 THEN -n ELSE n

Range(s) == { s[i] : i \in DOMAIN s }

RECURSIVE SumSeq(_)
\* sum([...])
SumSeq(s) == IF s = <<>> THEN 0 ELSE Head(s) + SumSeq(Tail(s))

(***************************************************************************)
(* Enriched Wasabi records the refiner is run on.  An enriched output is   *)
(* [value, address]: output['value']['value'] and output['address'] (a     *)
(* list of addresses, possibly empty).  A record is identified by its      *)
(* tx_hash, the position of the transaction in WasabiTxs: a tx hash        *)
(* determines the transaction, so two records of one input file with the   *)
(* same tx_hash have the same content and the same raw detection entry.    *)
(***************************************************************************)
Digit == <<"0","1","2","3","4","5","6","7","8","9">>
Addr(k) == <<"b","c","1","q","x", Digit[(k \div 10) + 1], Digit[(k % 10) + 1]>>
GamblingDice == <<"1","D","i","c","e","7">>
GamblingLucky == <<"1","l","u","c","k","y","A">>

Out(v, addrs) == [value |-> v, address |-> addrs]
Uniform(n, v, base) == [i \in 1..n |-> Out(v, <<Addr(base + i)>>)]
Change(base) == << Out(123456, <<Addr(base + 1)>>), Out(7654321, <<Addr(base + 2)>>) >>
Body(v) == Uniform(10, v, 0) \o Change(10)

WasabiOutputs ==
    << Body(10000001),                                              \* 1  no filter
       Body(8500000),                                               \* 2  no filter (edge bound)
       [Body(10000001) EXCEPT ![1].address = <<GamblingDice>>],     \* 3  gambling
       [Body(20000000) EXCEPT ![1].address = <<GamblingLucky>>],    \* 4  gambling, disallowed
       Body(12000001),                                              \* 5  disallowed
       [Body(20000000) EXCEPT ![2].address = <<Addr(1)>>],          \* 6  disallowed, reuse
       [Body(10000001) EXCEPT ![12].address = <<Addr(1)>>],         \* 7  reuse
       [Body(10000000) EXCEPT ![12].address = <<Addr(1)>>],         \* 8  reuse, exact
       Body(11000000),                                              \* 9  exact
       Body(12000000),                                              \* 10 exact, edge
       Body(8499999),                                               \* 11 edge
       Uniform(9, 20000000, 0) \o Change(10),                       \* 12 no filter (9 equal)
       [Body(10000001) EXCEPT ![1].address = <<Addr(1), GamblingDice>>],   \* 13
       [Body(10000001) EXCEPT ![1].address = <<>>,
                              ![2].address = <<GamblingLucky>>],    \* 14
       [Body(10000001) EXCEPT ![3].address = <<GamblingDice>>],     \* 15
       Uniform(10, 10000001, 0) \o Uniform(10, 20000000, 10) \o Change(20),  \* 16 tie
       Uniform(10, 20000000, 0) \o Uniform(10, 10000001, 10) \o Change(20),  \* 17 tie
       Uniform(11, 10000001, 0) \o Uniform(10, 9000000, 11) \o Change(21) >> \* 18 exact

WasabiDetails == <<"false positive", "coord address", "heuristic", "coord address|heuristic">>
WasabiHeights == <<530499, 530500, 609999, 610000>>

\* every output list once, the unfiltered list 1 at every height with every
\* details value, the filtered list 5 with every details value
WasabiTxs ==
    [i \in 1..Len(WasabiOutputs) |->
        [outputs |-> WasabiOutputs[i], height |-> 610000, details |-> "coord address|heuristic"]]
    \o [k \in 1..16 |->
        [outputs |-> WasabiOutputs[1], height |-> WasabiHeights[((k - 1) \div 4) + 1],
         details |-> WasabiDetails[((k - 1) % 4) + 1]]]
    \o [k \in 1..4 |->
        [outputs |-> WasabiOutputs[5], height |-> 530500, details |-> WasabiDetails[k]]]

WasabiIds == DOMAIN WasabiTxs

\* one element of txs_inputs (json.load of in_inputs)
tx_data_of(id) ==
    [tx_hash |-> id, height |-> WasabiTxs[id].height, outputs |-> WasabiTxs[id].outputs]

\* txs_raw[tx_id] (json.load of in_raw)
txs_raw(id) == [cj |-> [type |-> "wasabi", details |-> WasabiTxs[id].details]]

(***************************************************************************)
(* 3_refine_wasabi.py: the filters.                                        *)
(***************************************************************************)
RECURSIVE FirstAddress(_)
\* the address the nested loops of tx_uses_gambling_address reach first:
\* <<a>> for the first address of the first output that has one, <<>> if none
FirstAddress(outputs) ==
    IF outputs = <<>> THEN <<>>
    ELSE IF Head(outputs).address # <<>> THEN <<Head(Head(outputs).address)>>
    ELSE FirstAddress(Tail(outputs))

tx_uses_gambling_address_nolower(tx) ==
    LET first == FirstAddress(tx.outputs)
    IN  /\ first # <<>>
        /\ \/ startswith(first[1], <<"1","l","u","c","k","y">>)
           \/ startswith(first[1], <<"1","d","i","c","e">>)

\* the return statement sits inside both loops: it is executed for the first
\* address reached and ends the function
tx_uses_gambling_address(tx) ==
    LET first == FirstAddress(tx.outputs)
    IN  /\ first # <<>>
        /\ \/ startswith(lower(first[1]), <<"1","l","u","c","k","y">>)
           \/ startswith(lower(first[1]), <<"1","d","i","c","e">>)

RECURSIVE AllAddresses(_)
\* the addresses in the order the nested loops visit them
AllAddresses(outputs) ==
    IF outputs = <<>> THEN <<>>
    ELSE Head(outputs).address \o AllAddresses(Tail(outputs))

tx_reuses_output_address(tx) ==
    LET all == AllAddresses(tx.outputs)
    IN  \E i, j \in DOMAIN all : i < j /\ all[i] = all[j]

RECURSIVE Keys(_, _)
\* the keys of the defaultdict output_values, in insertion order
Keys(outputs, seen) ==
    IF outputs = <<>> THEN seen
    ELSE IF Head(outputs).value \in Range(seen) THEN Keys(Tail(outputs), seen)
    ELSE Keys(Tail(outputs), Append(seen, Head(outputs).value))

\* output_values.items(): <<value, count>> pairs in insertion order
output_values(outputs) ==
    LET keys == Keys(outputs, <<>>)
    IN  [k \in DOMAIN keys |->
            <<keys[k], Cardinality({i \in DOMAIN outputs : outputs[i].value = keys[k]})>>]

\* max(items, key=itemgetter(1)): the first item of the largest count
MaxByCount(items) ==
    items[CHOOSE k \in DOMAIN items :
            /\ \A j \in DOMAIN items : items[j][2] <= items[k][2]
            /\ \A j \in 1..(k - 1) : items[j][2] < items[k][2]]

ExactValues ==
    { (8 * SATOSHI_IN_BTC) \div 100, (9 * SATOSHI_IN_BTC) \div 100, SATOSHI_IN_BTC \div 10,
      (11 * SATOSHI_IN_BTC) \div 100, (12 * SATOSHI_IN_BTC) \div 100 }

tx_uses_exact_output_values(tx) ==
    LET items == output_values(tx.outputs)
    IN  \E k \in DOMAIN items : items[k][2] >= 10 /\ items[k][1] \in ExactValues

tx_uses_disallowed_values(tx) ==
    LET mfov == MaxByCount(output_values(tx.outputs))
    IN  /\ mfov[2] >= 10
        /\ abs(SATOSHI_IN_BTC \div 10 - mfov[1]) > (2 * SATOSHI_IN_BTC) \div 100

tx_uses_edge_case_values(tx) ==
    LET mfov == MaxByCount(output_values(tx.outputs))
    IN  /\ mfov[2] >= 10
        /\ abs(SATOSHI_IN_BTC \div 10 - mfov[1]) > (15 * SATOSHI_IN_BTC) \div 1000

FilterChain_disallowed_first(tx) ==
    IF tx_uses_disallowed_values(tx) THEN "disallowed"
    ELSE IF tx_uses_gambling_address(tx) THEN "gambling"
    ELSE IF tx_reuses_output_address(tx) THEN "reuse"
    ELSE IF tx_uses_exact_output_values(tx) THEN "output_exact"
    ELSE IF tx_uses_edge_case_values(tx) THEN "output_edge"
    ELSE "none"

\* the if/elif chain of the loop body: the branch that is taken
FilterChain(tx) ==
    IF tx_uses_gambling_address(tx) THEN "gambling"
    ELSE IF tx_uses_disallowed_values(tx) THEN "disallowed"
    ELSE IF tx_reuses_output_address(tx) THEN "reuse"
    ELSE IF tx_uses_exact_output_values(tx) THEN "output_exact"
    ELSE IF tx_uses_edge_case_values(tx) THEN "output_edge"
    ELSE "none"

Disposition_keeps_false_positive(filtered, cj_details, height) ==
    IF filtered THEN [counter |-> "fp_filtered", keep |-> FALSE]
    ELSE IF cj_details \in {"false positive"} THEN [counter |-> "fp_unfiltered", keep |-> TRUE]
    ELSE IF cj_details = "coord address|heuristic" THEN [counter |-> "tp", keep |-> TRUE]
    ELSE IF cj_details = "coord address" THEN [counter |-> "fn", keep |-> TRUE]
    ELSE IF cj_details = "heuristic" THEN
        IF 609999 >= height /\ height >= 530500
        THEN [counter |-> "fp_unfiltered", keep |-> FALSE]
        ELSE [counter |-> "heuristic_positive", keep |-> TRUE]
    ELSE [counter |-> "none", keep |-> FALSE]

Disposition_exclusive_bounds(filtered, cj_details, height) ==
    IF filtered THEN [counter |-> "fp_filtered", keep |-> FALSE]
    ELSE IF cj_details \in {"false positive"} THEN [counter |-> "fp_unfiltered", keep |-> FALSE]
    ELSE IF cj_details = "coord address|heuristic" THEN [counter |-> "tp", keep |-> TRUE]
    ELSE IF cj_details = "coord address" THEN [counter |-> "fn", keep |-> TRUE]
    ELSE IF cj_details = "heuristic" THEN
        IF 609999 > height /\ height > 530500
        THEN [counter |-> "fp_unfiltered", keep |-> FALSE]
        ELSE [counter |-> "heuristic_positive", keep |-> TRUE]
    ELSE [counter |-> "none", keep |-> FALSE]

Disposition_fn_untallied(filtered, cj_details, height) ==
    IF filtered THEN [counter |-> "fp_filtered", keep |-> FALSE]
    ELSE IF cj_details \in {"false positive"} THEN [counter |-> "fp_unfiltered", keep |-> FALSE]
    ELSE IF cj_details = "coord address|heuristic" THEN [counter |-> "tp", keep |-> TRUE]
    ELSE IF cj_details = "coord address" THEN [counter |-> "none", keep |-> TRUE]
    ELSE IF cj_details = "heuristic" THEN
        IF 609999 >= height /\ height >= 530500
        THEN [counter |-> "fp_unfiltered", keep |-> FALSE]
        ELSE [counter |-> "heuristic_positive", keep |-> TRUE]
    ELSE [counter |-> "none", keep |-> FALSE]

\* the second if/elif chain of the loop body: the counter of metric_stats that
\* is incremented ("none": no branch is taken) and whether new_txs gets the record
Disposition(filtered, cj_details, height) ==
    IF filtered THEN [counter |-> "fp_filtered", keep |-> FALSE]
    ELSE IF cj_details \in {"false positive"} THEN [counter |-> "fp_unfiltered", keep |-> FALSE]
    ELSE IF cj_details = "coord address|heuristic" THEN [counter |-> "tp", keep |-> TRUE]
    ELSE IF cj_details = "coord address" THEN [counter |-> "fn", keep |-> TRUE]
    ELSE IF cj_details = "heuristic" THEN
        IF 609999 >= height /\ height >= 530500
        THEN [counter |-> "fp_unfiltered", keep |-> FALSE]
        ELSE [counter |-> "heuristic_positive", keep |-> TRUE]
    ELSE [counter |-> "none", keep |-> FALSE]

Bump(stats, key) == IF key \in DOMAIN stats THEN [stats EXCEPT ![key] = @ + 1] ELSE stats

(***************************************************************************)
(* 3_refine_wasabi.py: __main__.                                           *)
(***************************************************************************)
ZeroMetric == [fp_filtered |-> 0, fp_unfiltered |-> 0, tp |-> 0, fn |-> 0, heuristic_positive |-> 0]
ZeroFilter == [gambling |-> 0, reuse |-> 0, output_exact |-> 0, output_edge |-> 0]
NoResults == [total |-> 0, filtered |-> 0, final |-> 0]

IdleWasabi ==
    /\ w_pc = "idle"
    /\ txs_inputs = <<>>
    /\ w_idx = 0
    /\ metric_stats = ZeroMetric
    /\ filter_stats = ZeroFilter
    /\ disallowed_values = {}
    /\ filtered_ids = {}
    /\ new_txs = <<>>
    /\ warned = FALSE
    /\ w_out = {}
    /\ results = NoResults

\* the state before the loop: the input file is any list of records
StartWasabi ==
    /\ w_pc = "loop"
    /\ txs_inputs \in UNION { [1..n -> WasabiIds] : n \in 0..MaxTxs }
    /\ w_idx = 0
    /\ metric_stats = ZeroMetric
    /\ filter_stats = ZeroFilter
    /\ disallowed_values = {}
    /\ filtered_ids = {}
    /\ new_txs = <<>>
    /\ warned = FALSE
    /\ w_out = {}
    /\ results = NoResults

\* new_txs[tx_id] = tx_data (the record is kept by reference: its position)
DictSet(d, key, val) == [k \in (DOMAIN d) \cup {key} |-> IF k = key THEN val ELSE d[k]]

\* the filters are pure functions of the record: the branch each record of
\* WasabiTxs takes, computed once
BranchOf == [id \in WasabiIds |-> FilterChain(tx_data_of(id))]

\* one iteration of the loop over txs_inputs
RefineWasabiTx ==
    /\ prog = "wasabi"
    /\ w_pc = "loop"
    /\ w_idx < Len(txs_inputs)
    /\ LET tx_data == tx_data_of(txs_inputs[w_idx + 1])
           tx_id == tx_data.tx_hash
           branch == BranchOf[tx_id]
           filtered_ids_1 == IF branch = "none" THEN filtered_ids ELSE filtered_ids \cup {tx_id}
           cj_details == txs_raw(tx_id).cj.details
           d == Disposition(tx_id \in filtered_ids_1, cj_details, tx_data.height)
       IN  /\ filter_stats' = Bump(filter_stats, branch)
           /\ disallowed_values' = IF branch = "disallowed"
                                   THEN disallowed_values \cup {tx_id}
                                   ELSE disallowed_values
           /\ filtered_ids' = filtered_ids_1
           /\ metric_stats' = Bump(metric_stats, d.counter)
           /\ new_txs' = IF d.keep THEN DictSet(new_txs, tx_id, w_idx + 1) ELSE new_txs
    /\ w_idx' = w_idx + 1
    /\ UNCHANGED <<prog, w_pc, txs_inputs, warned, w_out, results, svars, dvars, hvars, evars>>

\* after the loop: the sanity check, the dump of new_txs and the summary
FinishWasabi ==
    /\ prog \in {"wasabi", "pipeline"}
    /\ w_pc = "loop"
    /\ w_idx = Len(txs_inputs)
    /\ warned' = (SumSeq(<<Cardinality(disallowed_values), filter_stats.gambling,
                           filter_stats.reuse, filter_stats.output_exact,
                           filter_stats.output_edge>>) # metric_stats.fp_filtered)
    /\ w_out' = DOMAIN new_txs
    /\ results' = [total |-> Len(txs_inputs),
                   filtered |-> metric_stats.fp_filtered,
                   final |-> Len(txs_inputs) - Cardinality(filtered_ids)]
    /\ w_pc' = "done"
    /\ UNCHANGED <<prog, txs_inputs, w_idx, metric_stats, filter_stats, disallowed_values,
                   filtered_ids, new_txs, svars, dvars, hvars, evars>>

(***************************************************************************)
(* Enriched Samourai records the refiner is run on: inputs and outputs are *)
(* the sequences of tx['inputs'][i]['value']['value'] and                  *)
(* tx['outputs'][i]['value']['value'].  A record is identified by its      *)
(* tx_hash, the position of the transaction in SamouraiTxs.                *)
(***************************************************************************)
Rep(n, v) == [i \in 1..n |-> v]
Alt(n, a, b) == [i \in 1..n |-> IF i % 2 = 1 THEN a ELSE b]

\* r inputs worth sz, p inputs in (sz, sz + fee] (both ends), the rest outside
MixInputs(sz, r, p) ==
    Rep(r, sz) \o Alt(p, sz + 110000, sz + 1) \o Alt(5 - r - p, sz + 110001, sz - 1)

\* every <<r, p>> with r + p <= 5
Splits ==
    << <<0,0>>, <<0,1>>, <<0,2>>, <<0,3>>, <<0,4>>, <<0,5>>, <<1,0>>,
       <<1,1>>, <<1,2>>, <<1,3>>, <<1,4>>, <<2,0>>, <<2,1>>, <<2,2>>,
       <<2,3>>, <<3,0>>, <<3,1>>, <<3,2>>, <<4,0>>, <<4,1>>, <<5,0>> >>

SamouraiTxs ==
    [k \in DOMAIN Splits |->
        [inputs |-> MixInputs(1000000, Splits[k][1], Splits[k][2]), outputs |-> Rep(5, 1000000)]]
    \o << [inputs |-> MixInputs(5000000, 2, 3),  outputs |-> Rep(5, 5000000)],
          [inputs |-> MixInputs(5000000, 4, 1),  outputs |-> Rep(5, 5000000)],
          [inputs |-> MixInputs(50000000, 3, 2), outputs |-> Rep(5, 50000000)],
          [inputs |-> MixInputs(50000000, 5, 0), outputs |-> Rep(5, 50000000)],
          \* premix inputs first
          [inputs |-> Alt(2, 1000001, 1110000) \o Rep(3, 1000000), outputs |-> Rep(5, 1000000)],
          \* a uniform value that is no pool size
          [inputs |-> MixInputs(2000000, 2, 3),  outputs |-> Rep(5, 2000000)],
          \* one output differs
          [inputs |-> MixInputs(1000000, 2, 3),  outputs |-> Rep(4, 1000000) \o <<1000001>>],
          [inputs |-> MixInputs(1000000, 2, 3),  outputs |-> <<5000000>> \o Rep(4, 1000000)],
          \* 4 or 6 inputs, 4 or 6 outputs
          [inputs |-> Rep(1, 1000000) \o Rep(3, 1000001), outputs |-> Rep(5, 1000000)],
          [inputs |-> Rep(2, 1000000) \o Rep(4, 1000001), outputs |-> Rep(5, 1000000)],
          [inputs |-> MixInputs(1000000, 2, 3),  outputs |-> Rep(4, 1000000)],
          [inputs |-> MixInputs(1000000, 2, 3),  outputs |-> Rep(6, 1000000)] >>

SamouraiIds == DOMAIN SamouraiTxs

\* one element of raw_txs_w_inputs (json.load of in_inputs)
txdata_of(id) ==
    [tx_hash |-> id, inputs |-> SamouraiTxs[id].inputs, outputs |-> SamouraiTxs[id].outputs]

\* samourai_potentials[txid] (json.load of in_raw): the raw record of format_transaction,
\* whose inputs are the outpoints {hash, index} the transaction spends
samourai_potentials(id) ==
    [tx |-> [inputs |-> [i \in DOMAIN SamouraiTxs[id].inputs |->
                            [hash |-> 100 * id + i, index |-> (id + i) % 3]]]]

(***************************************************************************)
(* 3_refine_samourai.py                                                    *)
(***************************************************************************)
CountRemix(inputs, sz) == Cardinality({i \in DOMAIN inputs : inputs[i] = sz})

CountPremix_exclusive(inputs, sz) ==
    Cardinality({i \in DOMAIN inputs :
                    /\ inputs[i] # sz
                    /\ sz < inputs[i] /\ inputs[i] < sz + Samourai_MAX_POOL_FEE})

CountPremix(inputs, sz) ==
    Cardinality({i \in DOMAIN inputs :
                    /\ inputs[i] # sz
                    /\ sz < inputs[i] /\ inputs[i] <= sz + Samourai_MAX_POOL_FEE})

is_samourai_coin_join(tx) ==
    IF Len(tx.inputs) = 5 /\ Len(tx.outputs) = 5
    THEN IF Cardinality(Range(tx.outputs)) = 1
         THEN IF \E k \in DOMAIN Samourai_WHIRLPOOL_SIZES :
                    tx.outputs[1] = Samourai_WHIRLPOOL_SIZES[k]
              THEN LET sz == tx.outputs[1]
                       count_remix == CountRemix(tx.inputs, sz)
                       count_premix == CountPremix(tx.inputs, sz)
                   IN  \/ (count_remix = 1 /\ count_premix = 4)
                       \/ (count_remix = 2 /\ count_premix = 3)
                       \/ (count_remix = 3 /\ count_premix = 2)
              ELSE FALSE
         ELSE FALSE
    ELSE FALSE

RECURSIVE DictKeys(_, _)
\* the keys of {tx['tx_hash']: tx for tx in raw_txs_w_inputs}, in insertion order
DictKeys(ids, seen) ==
    IF ids = <<>> THEN seen
    ELSE IF Head(ids) \in Range(seen) THEN DictKeys(Tail(ids), seen)
    ELSE DictKeys(Tail(ids), Append(seen, Head(ids)))

RECURSIVE Tx0Entries_index(_, _, _)
Tx0Entries_index(inputs, raw_inputs, idx) ==
    IF idx > Len(inputs) THEN <<>>
    ELSE (IF inputs[idx] \notin Range(Samourai_WHIRLPOOL_SIZES)
          THEN <<raw_inputs[idx].index>> ELSE <<>>)
         \o Tx0Entries_index(inputs, raw_inputs, idx + 1)

RECURSIVE Tx0Entries(_, _, _)
\* what the inner loop over enumerate(txdata['inputs']) appends to tx0_txids
Tx0Entries(inputs, raw_inputs, idx) ==
    IF idx > Len(inputs) THEN <<>>
    ELSE (IF inputs[idx] \notin Range(Samourai_WHIRLPOOL_SIZES)
          THEN <<raw_inputs[idx].hash>> ELSE <<>>)
         \o Tx0Entries(inputs, raw_inputs, idx + 1)

IdleSamourai ==
    /\ s_pc = "idle"
    /\ raw_txs_w_inputs = <<>>
    /\ raw_txs_w_inputs_dict = <<>>
    /\ s_idx = 0
    /\ refined_txs = {}
    /\ tx0_txids = <<>>

\* the state after the two input files are loaded
StartSamourai ==
    /\ s_pc = "dict"
    /\ raw_txs_w_inputs \in UNION { [1..n -> SamouraiIds] : n \in 0..MaxTxs }
    /\ raw_txs_w_inputs_dict = <<>>
    /\ s_idx = 0
    /\ refined_txs = {}
    /\ tx0_txids = <<>>

\* is_samourai_coin_join is a pure function of the record: its value for each
\* record of SamouraiTxs, computed once
AcceptedOf == [id \in SamouraiIds |-> is_samourai_coin_join(txdata_of(id))]

\* raw_txs_w_inputs_dict = {tx['tx_hash']: tx for tx in raw_txs_w_inputs}
BuildSamouraiDict ==
    /\ prog = "samourai"
    /\ s_pc = "dict"
    /\ raw_txs_w_inputs_dict' = DictKeys(raw_txs_w_inputs, <<>>)
    /\ s_pc' = "loop"
    /\ UNCHANGED <<prog, raw_txs_w_inputs, s_idx, refined_txs, tx0_txids, wvars, dvars, hvars, evars>>

\* one iteration of the loop over raw_txs_w_inputs_dict.items()
RefineSamouraiTx ==
    /\ prog = "samourai"
    /\ s_pc = "loop"
    /\ s_idx < Len(raw_txs_w_inputs_dict)
    /\ LET txid == raw_txs_w_inputs_dict[s_idx + 1]
           txdata == txdata_of(txid)
       IN  IF AcceptedOf[txid]
           THEN /\ refined_txs' = refined_txs \cup {txid}
                /\ tx0_txids' = tx0_txids
                        \o Tx0Entries(txdata.inputs, samourai_potentials(txid).tx.inputs, 1)
           ELSE UNCHANGED <<refined_txs, tx0_txids>>
    /\ s_idx' = s_idx + 1
    /\ UNCHANGED <<prog, s_pc, raw_txs_w_inputs, raw_txs_w_inputs_dict, wvars, dvars, hvars, evars>>

\* after the loop: refined_txs and tx0_txids are dumped
FinishSamourai ==
    /\ prog = "samourai"
    /\ s_pc = "loop"
    /\ s_idx = Len(raw_txs_w_inputs_dict)
    /\ s_pc' = "done"
    /\ UNCHANGED <<prog, raw_txs_w_inputs, raw_txs_w_inputs_dict, s_idx, refined_txs,
                   tx0_txids, wvars, dvars, hvars, evars>>

(***************************************************************************)
(* Transactions the Detector is run on (blockchain_parser Transaction):    *)
(* [coinbase, n_inputs, outputs], an output being [value, addresses].      *)
(***************************************************************************)
CoordUpper ==
    <<"B","C","1","Q","S","6","0","4","C","7","J","V","6","A","M","K","4","C","X","Q","L",
          "N","V","U","X","V","2","6","H","V","3","E","4","8","C","D","S","4","M","0","E","W">>
CoordLower ==
    <<"b","c","1","q","a","2","4","t","s","g","c","h","v","u","x","s","a","c","c","p","8",
          "v","r","n","k","f","d","8","5","h","r","c","p","a","f","g","2","0","k","m","j","w">>

DOut(v, addrs) == [value |-> v, addresses |-> addrs]
DUniform(n, v, base) == [i \in 1..n |-> DOut(v, <<Addr(base + i)>>)]
DChange(base) == << DOut(123456, <<Addr(base + 1)>>), DOut(7654321, <<Addr(base + 2)>>) >>

DetectorShapes ==
    << \* 1  Samourai: 5 in, 5 equal outputs of a pool size
       [n_inputs |-> 5, outputs |-> DUniform(5, 5000000, 0)],
       \* 2  the same paying a coordinator address: Samourai and Wasabi static
       [n_inputs |-> 5, outputs |-> [DUniform(5, 5000000, 0) EXCEPT ![5].addresses = <<CoordLower>>]],
       \* 3  one output differs, with a coordinator address: Wasabi static only
       [n_inputs |-> 5, outputs |-> DUniform(4, 5000000, 0) \o <<DOut(5000001, <<CoordUpper>>)>>],
       \* 4  6 inputs: nothing
       [n_inputs |-> 6, outputs |-> DUniform(5, 5000000, 0)],
       \* 5  3 equal outputs and a coordinator address written in upper case
       [n_inputs |-> 2, outputs |-> [DUniform(3, 700000, 0) EXCEPT ![2].addresses = <<Addr(2), CoordUpper>>]],
       \* 6  Wasabi statistical only
       [n_inputs |-> 10, outputs |-> DUniform(10, 10000000, 0) \o DChange(10)],
       \* 7  Wasabi static and statistical
       [n_inputs |-> 12, outputs |-> DUniform(10, 12000000, 0) \o DChange(10)
                                       \o <<DOut(99, <<CoordLower>>)>>],
       \* 8  9 inputs for 10 equal outputs, with a coordinator address: static only
       [n_inputs |-> 9, outputs |-> DUniform(10, 10000000, 0) \o DChange(10)
                                       \o <<DOut(99, <<CoordLower>>)>>],
       \* 9  most frequent value out of range: nothing
       [n_inputs |-> 10, outputs |-> DUniform(10, 12000001, 0) \o DChange(10)],
       \* 10 two outputs: nothing
       [n_inputs |-> 1, outputs |-> DChange(0)],
       \* 11 Wasabi statistical only, on a value no refiner filter catches
       [n_inputs |-> 10, outputs |-> DUniform(10, 10000001, 0) \o DChange(10)],
       \* 12 Wasabi static and statistical, on a value no refiner filter catches
       [n_inputs |-> 12, outputs |-> DUniform(10, 10000001, 0) \o DChange(10)
                                       \o <<DOut(99, <<CoordLower>>)>>] >>

DetectorTxs ==
    [k \in 1..(2 * Len(DetectorShapes)) |->
        [coinbase |-> (k > Len(DetectorShapes)),
         n_inputs |-> DetectorShapes[((k - 1) % Len(DetectorShapes)) + 1].n_inputs,
         outputs |-> DetectorShapes[((k - 1) % Len(DetectorShapes)) + 1].outputs]]

DetectorIds == DOMAIN DetectorTxs
DetectorHeights == {530499, 530500, 569999, 570000, 609999, 610000}

(***************************************************************************)
(* 1_parse_coinjoins.py: CoinJoinParser.                                   *)
(***************************************************************************)
None == "None"

RECURSIVE OutputAddresses(_)
\* the addresses the nested loops over tx.outputs and output.addresses visit
OutputAddresses(outputs) ==
    IF outputs = <<>> THEN <<>>
    ELSE Head(outputs).addresses \o OutputAddresses(Tail(outputs))

is_wasabi_coin_join_static_coord_exact_case(tx) ==
    LET output_count == IF Len(tx.outputs) >= 3 THEN output_values(tx.outputs) ELSE <<>>
        addresses == IF Len(tx.outputs) >= 3 THEN OutputAddresses(tx.outputs) ELSE <<>>
        has_collector_address ==
            \E i \in DOMAIN addresses : addresses[i] \in Wasabi_COORD_ADDRESSES
    IN  /\ has_collector_address
        /\ \E k \in DOMAIN output_count : output_count[k][2] > 2

is_wasabi_coin_join_static_coord(tx) ==
    LET output_count == IF Len(tx.outputs) >= 3 THEN output_values(tx.outputs) ELSE <<>>
        addresses == IF Len(tx.outputs) >= 3 THEN OutputAddresses(tx.outputs) ELSE <<>>
        has_collector_address ==
            \E i \in DOMAIN addresses : lower(addresses[i]) \in Wasabi_COORD_ADDRESSES
    IN  /\ has_collector_address
        /\ \E k \in DOMAIN output_count : output_count[k][2] > 2

\* max(...) taken as the last item of the largest count
MaxByCount_last(items) ==
    items[CHOOSE k \in DOMAIN items :
            /\ \A j \in DOMAIN items : items[j][2] <= items[k][2]
            /\ \A j \in (k + 1)..Len(items) : items[j][2] < items[k][2]]

is_wasabi_coin_join_heuristic_last_max(tx) ==
    IF Len(tx.outputs) >= 10
    THEN LET output_count == output_values(tx.outputs)
             most_frequent_eq_output == MaxByCount_last(output_count)
         IN  /\ tx.n_inputs >= most_frequent_eq_output[2]
             /\ most_frequent_eq_output[2] >= 10
             /\ abs(Wasabi_APPROX_BASE_DENOM - most_frequent_eq_output[1]) <= Wasabi_MAX_PRECISION
             /\ \E k \in DOMAIN output_count : output_count[k][2] = 1
             /\ Len(output_count) >= 3
    ELSE FALSE

is_wasabi_coin_join_heuristic(tx) ==
    IF Len(tx.outputs) >= 10
    THEN LET output_count == output_values(tx.outputs)
             most_frequent_eq_output == MaxByCount(output_count)
         IN  /\ tx.n_inputs >= most_frequent_eq_output[2]
             /\ most_frequent_eq_output[2] >= 10
             /\ abs(Wasabi_APPROX_BASE_DENOM - most_frequent_eq_output[1]) <= Wasabi_MAX_PRECISION
             /\ \E k \in DOMAIN output_count : output_count[k][2] = 1
             /\ Len(output_count) >= 3
    ELSE FALSE

is_potential_samourai_coin_join_any_inputs(tx) ==
    IF Len(tx.outputs) = 5
    THEN IF Cardinality({tx.outputs[i].value : i \in DOMAIN tx.outputs}) = 1
         THEN tx.outputs[1].value \in Range(Samourai_WHIRLPOOL_SIZES)
         ELSE FALSE
    ELSE FALSE

is_potential_samourai_coin_join(tx) ==
    IF tx.n_inputs = 5 /\ Len(tx.outputs) = 5
    THEN IF Cardinality({tx.outputs[i].value : i \in DOMAIN tx.outputs}) = 1
         THEN tx.outputs[1].value \in Range(Samourai_WHIRLPOOL_SIZES)
         ELSE FALSE
    ELSE FALSE

RECURSIVE Join(_, _)
\* sep.join(strings)
Join(sep, strings) ==
    IF Len(strings) = 0 THEN ""
    ELSE IF Len(strings) = 1 THEN strings[1]
    ELSE strings[1] \o sep \o Join(sep, Tail(strings))

\* a pipe-separated string of the matching heuristics, or None
is_wasabi_coin_join(tx) ==
    LET detection == (IF is_wasabi_coin_join_static_coord(tx) THEN <<"coord address">> ELSE <<>>)
                     \o (IF is_wasabi_coin_join_heuristic(tx) THEN <<"heuristic">> ELSE <<>>)
    IN  IF detection # <<>> THEN Join("|", detection) ELSE None

Classify_wasabi_first(tx) ==
    IF tx.coinbase
    THEN [cj_type |-> None, details |-> "coinbase"]
    ELSE IF is_wasabi_coin_join(tx) # None
         THEN [cj_type |-> "wasabi", details |-> is_wasabi_coin_join(tx)]
         ELSE IF is_potential_samourai_coin_join(tx)
              THEN [cj_type |-> "samourai", details |-> "heuristic"]
              ELSE [cj_type |-> None, details |-> None]

Classify_coinbase_falls_through(tx) ==
    IF is_potential_samourai_coin_join(tx)
    THEN [cj_type |-> "samourai", details |-> "heuristic"]
    ELSE IF is_wasabi_coin_join(tx) # None
         THEN [cj_type |-> "wasabi", details |-> is_wasabi_coin_join(tx)]
         ELSE [cj_type |-> None, details |-> IF tx.coinbase THEN "coinbase" ELSE None]

\* is_coin_join up to the height checks: the local cj
Classify(tx) ==
    IF tx.coinbase
    THEN [cj_type |-> None, details |-> "coinbase"]
    ELSE IF is_potential_samourai_coin_join(tx)
         THEN [cj_type |-> "samourai", details |-> "heuristic"]
         ELSE IF is_wasabi_coin_join(tx) # None
              THEN [cj_type |-> "wasabi", details |-> is_wasabi_coin_join(tx)]
              ELSE [cj_type |-> None, details |-> None]

FirstBlockCheck_inclusive(cj, block_height) ==
    IF cj.cj_type = "samourai" /\ block_height <= Samourai_FIRST_BLOCK
    THEN [cj EXCEPT !.details = "false positive"]
    ELSE IF cj.cj_type = "wasabi" /\ block_height <= Wasabi_FIRST_BLOCK
         THEN [cj EXCEPT !.details = "false positive"]
         ELSE cj

FirstBlockCheck_samourai_only(cj, block_height) ==
    IF cj.cj_type = "samourai" /\ block_height < Samourai_FIRST_BLOCK
    THEN [cj EXCEPT !.details = "false positive"]
    ELSE cj

\* is_coin_join from the height checks on: cj as returned
FirstBlockCheck(cj, block_height) ==
    IF cj.cj_type = "samourai" /\ block_height < Samourai_FIRST_BLOCK
    THEN [cj EXCEPT !.details = "false positive"]
    ELSE IF cj.cj_type = "wasabi" /\ block_height < Wasabi_FIRST_BLOCK
         THEN [cj EXCEPT !.details = "false positive"]
         ELSE cj

is_coin_join(tx, block_height) == FirstBlockCheck(Classify(tx), block_height)

(***************************************************************************)
(* 1_parse_coinjoins.py: __main__, the scan.  Blocks come in height order; *)
(* the txid of the k-th transaction scanned is k.                          *)
(***************************************************************************)
NoCj == [cj_type |-> None, details |-> None]

IdleDetector ==
    /\ d_pc = "idle"
    /\ d_total = 0
    /\ scanned = <<>>
    /\ wasabi_txs = <<>>
    /\ samourai_txs = <<>>
    /\ result = NoCj
    /\ cj_pre = NoCj
    /\ d_err = FALSE

StartDetector ==
    /\ d_pc = "scan"
    /\ d_total \in 0..MaxScan
    /\ scanned = <<>>
    /\ wasabi_txs = <<>>
    /\ samourai_txs = <<>>
    /\ result = NoCj
    /\ cj_pre = NoCj
    /\ d_err = FALSE

\* Classify is a pure function of the transaction: its value for each
\* transaction of DetectorTxs, computed once
ClassifyOf == [id \in DetectorIds |-> Classify(DetectorTxs[id])]

\* is_coin_join for each transaction of DetectorTxs at each height, computed once
ResultOf ==
    [id \in DetectorIds, block_height \in DetectorHeights |->
        is_coin_join(DetectorTxs[id], block_height)]

LastHeight == IF scanned = <<>> THEN 0 ELSE scanned[Len(scanned)].height

\* one iteration of the inner loop: the next transaction is classified
ScanTx ==
    /\ prog \in {"detector", "pipeline"}
    /\ d_pc = "scan"
    /\ Len(scanned) < d_total
    /\ \E id \in DetectorIds, block_height \in DetectorHeights :
        /\ block_height >= LastHeight
        /\ LET txid == Len(scanned) + 1
               r == ResultOf[id, block_height]
               parsed_tx == [cj |-> [type |-> r.cj_type, details |-> r.details],
                             tx |-> [block_height |-> block_height, txid |-> txid]]
           IN  /\ result' = r
               /\ cj_pre' = ClassifyOf[id]
               /\ samourai_txs' = IF r.cj_type = "samourai"
                                  THEN DictSet(samourai_txs, txid, parsed_tx)
                                  ELSE samourai_txs
               /\ wasabi_txs' = IF r.cj_type # "samourai" /\ r.cj_type = "wasabi"
                                THEN DictSet(wasabi_txs, txid, parsed_tx)
                                ELSE wasabi_txs
               /\ scanned' = Append(scanned, [tx |-> id, height |-> block_height])
    /\ UNCHANGED <<prog, d_pc, d_total, d_err, wvars, svars, hvars, evars>>

\* an exception raised inside the loops while the next transaction is decoded
\* or classified is caught by the except clause around both loops: the loops
\* are left, and the results are written
ScanError ==
    /\ prog \in {"detector", "pipeline"}
    /\ d_pc = "scan"
    /\ Len(scanned) < d_total
    /\ d_err' = TRUE
    /\ d_pc' = "written"
    /\ UNCHANGED <<prog, d_total, scanned, wasabi_txs, samourai_txs, result, cj_pre,
                   wvars, svars, hvars, evars>>

\* the blocks are exhausted; the results are written
ScanFinish ==
    /\ prog \in {"detector", "pipeline"}
    /\ d_pc = "scan"
    /\ Len(scanned) = d_total
    /\ d_pc' = "written"
    /\ UNCHANGED <<prog, d_total, scanned, wasabi_txs, samourai_txs, result, cj_pre, d_err,
                   wvars, svars, hvars, evars>>

(***************************************************************************)
(* 1_parse_coinjoins.py: the heuristics of CoinJoinParser called on one    *)
(* transaction.  HeuristicTxs holds the transactions they are called on:   *)
(* every list of 4 to 6 outputs over three pool sizes and one other value, *)
(* value groups around the limits of the statistical heuristic, and short  *)
(* lists with and without a coordinator address.                           *)
(***************************************************************************)
HTx(n, outputs) == [n_inputs |-> n, outputs |-> outputs]
HOutputs(values) == [i \in DOMAIN values |-> DOut(values[i], <<Addr(i)>>)]

\* 4 to 6 inputs, 4 to 6 outputs, every choice of the output values
SamouraiShapedTxs ==
    { HTx(n, HOutputs(values)) :
        n \in 4..6,
        values \in UNION { [1..len -> {1000000, 5000000, 50000000, 5000001}] : len \in 4..6 } }

\* c1 outputs of m1, then c2 of m2, then a pair of equal values, then u
\* values that occur once
StatisticalShapedTxs ==
    { HTx(n, HOutputs(Rep(c1, m1) \o Rep(c2, m2) \o Rep(p, 4200) \o SubSeq(<<123456, 7654321>>, 1, u))) :
        n \in 9..12,
        c1 \in 9..11,
        m1 \in {7999999, 8000000, 10000000, 12000000, 12000001},
        c2 \in {0, 10, 11},
        m2 \in {10000005, 20000000},
        p \in {0, 2},
        u \in 0..2 }

\* the output at position at pays address coord besides its own (at = 0: none does)
WithCoord(outputs, at, coord) ==
    [i \in DOMAIN outputs |->
        IF i = at THEN DOut(outputs[i].value, <<Addr(i), coord>>) ELSE outputs[i]]

CoordLike ==
    { CoordUpper, CoordLower, lower(CoordUpper),
      [CoordLower EXCEPT ![5] = "A"],       \* the second address with one upper-case letter
      [CoordLower EXCEPT ![42] = "x"] }     \* not a coordinator address

\* 2 to 4 outputs over two values, one of them paying an address of CoordLike or none
StaticShapedTxs ==
    { HTx(2, WithCoord(HOutputs(values), at, coord)) :
        values \in UNION { [1..len -> {700000, 700001}] : len \in 2..4 },
        at \in 0..4,
        coord \in CoordLike }

HeuristicTxs == SamouraiShapedTxs \cup StatisticalShapedTxs \cup StaticShapedTxs

NoHeuristics == [samourai |-> FALSE, static_coord |-> FALSE, heuristic |-> FALSE, wasabi |-> None]

IdleHeuristics ==
    /\ h_pc = "idle"
    /\ h_tx = HTx(0, <<>>)
    /\ h_res = NoHeuristics

StartHeuristics ==
    /\ h_pc = "call"
    /\ h_tx \in HeuristicTxs
    /\ h_res = NoHeuristics

\* the three heuristics and is_wasabi_coin_join return
ApplyHeuristics ==
    /\ prog = "heuristics"
    /\ h_pc = "call"
    /\ h_res' = [samourai |-> is_potential_samourai_coin_join(h_tx),
                 static_coord |-> is_wasabi_coin_join_static_coord(h_tx),
                 heuristic |-> is_wasabi_coin_join_heuristic(h_tx),
                 wasabi |-> is_wasabi_coin_join(h_tx)]
    /\ h_pc' = "returned"
    /\ UNCHANGED <<prog, h_tx, wvars, svars, dvars, evars>>

(***************************************************************************)
(* utils.py: chunks.  The generator is run step by step by the loop of     *)
(* 2_get_inputs_for_txs.py: e_it is its iterator, and another chunk is     *)
(* yielded while range(0, len(data), size) has another element.  The size  *)
(* argument is <<>> when the caller passes none, <<size>> otherwise.       *)
(***************************************************************************)
chunks_default_size == 1000

chunk_size(size) == IF size = <<>> THEN chunks_default_size ELSE size[1]

\* range(0, len(data), size) has an element after the first done ones
range_has_next(done, len, size) == done * size < len

\* list(islice(it, size)) with one item less
islice_one_short(it, size) == SubSeq(it, 1, IF size - 1 < Len(it) THEN size - 1 ELSE Len(it))

\* list(islice(it, size)): the next size items of it, or all that are left
islice(it, size) == SubSeq(it, 1, IF size < Len(it) THEN size ELSE Len(it))

\* the iterator after that islice
advance(it, taken) == SubSeq(it, Len(taken) + 1, Len(it))

(***************************************************************************)
(* 2_get_inputs_for_txs.py: the input file is a dict of distinct tx ids;   *)
(* the record GraphSense returns for a tx id is [tx_hash |-> tx id].       *)
(***************************************************************************)
EnrichKeys ==
    { keys \in UNION { [1..n -> 1..MaxIds] : n \in 0..MaxIds } :
        \A i, j \in DOMAIN keys : i # j => keys[i] # keys[j] }

EnrichInputs ==
    UNION { { [i \in DOMAIN keys |-> <<keys[i], values[i]>>] :
                values \in [DOMAIN keys -> {"coord address", "heuristic"}] } :
            keys \in EnrichKeys }

ChunkSizes == {<<>>} \cup { <<size>> : size \in 1..MaxSize }

ItemKeys(items) == [i \in DOMAIN items |-> items[i][1]]

Enriched(tx_id) == [tx_hash |-> tx_id]

\* what asyncio.gather returns: the records in the order of tx_ids
GatherResult(tx_ids) == [i \in DOMAIN tx_ids |-> Enriched(tx_ids[i])]

\* an except clause that returns the records of the requests answered so far
ExceptReturn_answered(tx_ids, responses) ==
    GatherResult(SelectSeq(tx_ids, LAMBDA k : k \in responses))

\* what fetch returns from its except clause
ExceptReturn(tx_ids, responses) == <<>>

IdleEnrich ==
    /\ e_pc = "idle"
    /\ e_txs_raw = <<>>
    /\ e_size = <<>>
    /\ e_it = <<>>
    /\ e_chunks = <<>>
    /\ e_session = "none"
    /\ e_requested = {}
    /\ e_pending = {}
    /\ e_responses = {}
    /\ e_log = {}
    /\ txs_parsed = <<>>
    /\ e_out = <<>>

StartEnrich ==
    /\ e_pc = "loop"
    /\ e_txs_raw \in EnrichInputs
    /\ e_size \in ChunkSizes
    /\ e_it = e_txs_raw
    /\ e_chunks = <<>>
    /\ e_session = "none"
    /\ e_requested = {}
    /\ e_pending = {}
    /\ e_responses = {}
    /\ e_log = {}
    /\ txs_parsed = <<>>
    /\ e_out = <<>>

\* the loop takes the next chunk and calls fetch: the session is opened and
\* gather starts one request for every tx id of the chunk
StartFetch ==
    /\ prog = "enrich"
    /\ e_pc = "loop"
    /\ range_has_next(Len(e_chunks), Len(e_txs_raw), chunk_size(e_size))
    /\ LET chunk == islice(e_it, chunk_size(e_size))
       IN  /\ e_chunks' = Append(e_chunks, chunk)
           /\ e_it' = advance(e_it, chunk)
           /\ e_pending' = Range(ItemKeys(chunk))
           /\ e_requested' = e_requested \cup Range(ItemKeys(chunk))
    /\ e_session' = "open"
    /\ e_pc' = "fetch"
    /\ UNCHANGED <<prog, e_txs_raw, e_size, e_responses, e_log, txs_parsed, e_out,
                   wvars, svars, dvars, hvars>>

\* one request of the batch returns its record
RequestReturns ==
    /\ prog = "enrich"
    /\ e_pc = "fetch"
    /\ \E tx_id \in e_pending :
        /\ e_pending' = e_pending \ {tx_id}
        /\ e_responses' = e_responses \cup {tx_id}
    /\ UNCHANGED <<prog, e_pc, e_txs_raw, e_size, e_it, e_chunks, e_session, e_requested,
                   e_log, txs_parsed, e_out, wvars, svars, dvars, hvars>>

\* every request has returned: gather returns the records, the session is
\* closed and the loop extends txs_parsed
GatherReturns ==
    /\ prog = "enrich"
    /\ e_pc = "fetch"
    /\ e_pending = {}
    /\ txs_parsed' = txs_parsed \o GatherResult(ItemKeys(e_chunks[Len(e_chunks)]))
    /\ e_session' = "closed"
    /\ e_pc' = "loop"
    /\ UNCHANGED <<prog, e_txs_raw, e_size, e_it, e_chunks, e_requested, e_pending,
                   e_responses, e_log, e_out, wvars, svars, dvars, hvars>>

\* one request of the batch raises (a timeout, or any other error): gather
\* raises it in fetch, the except clause logs and returns, the session is
\* closed and the loop extends txs_parsed with what fetch returned
RequestRaises ==
    /\ prog = "enrich"
    /\ e_pc = "fetch"
    /\ e_pending # {}
    /\ txs_parsed' = txs_parsed \o ExceptReturn(ItemKeys(e_chunks[Len(e_chunks)]), e_responses)
    /\ e_log' = e_log \cup {Len(e_chunks)}
    /\ e_pending' = {}
    /\ e_session' = "closed"
    /\ e_pc' = "loop"
    /\ UNCHANGED <<prog, e_txs_raw, e_size, e_it, e_chunks, e_requested, e_responses,
                   e_out, wvars, svars, dvars, hvars>>

\* chunks is exhausted: txs_parsed is dumped
DumpParsed ==
    /\ prog = "enrich"
    /\ e_pc = "loop"
    /\ ~range_has_next(Len(e_chunks), Len(e_txs_raw), chunk_size(e_size))
    /\ e_out' = txs_parsed
    /\ e_pc' = "written"
    /\ UNCHANGED <<prog, e_txs_raw, e_size, e_it, e_chunks, e_session, e_requested,
                   e_pending, e_responses, e_log, txs_parsed, wvars, svars, dvars, hvars>>

(***************************************************************************)
(* The pipeline on the Wasabi side: the scan of 1_parse_coinjoins.py, then *)
(* 2_get_inputs_for_txs.py on found_wasabi_cjs.json (every batch           *)
(* succeeding), then 3_refine_wasabi.py with that file as in_raw.  The tx  *)
(* id is the txid of the scan; the record GraphSense returns for a         *)
(* transaction carries its outputs and, as height, the height of its block.*)
(***************************************************************************)
EnrichedOutputs(outputs) ==
    [i \in DOMAIN outputs |-> Out(outputs[i].value, outputs[i].addresses)]

\* the enriched record of the transaction the scan read as number txid
EnrichedRecord(txid) ==
    [tx_hash |-> txid,
     height |-> scanned[txid].height,
     outputs |-> EnrichedOutputs(DetectorTxs[scanned[txid].tx].outputs)]

\* the keys of a dict filled in txid order
KeysInOrder(d) ==
    [i \in 1..Cardinality(DOMAIN d) |->
        CHOOSE k \in DOMAIN d : Cardinality({j \in DOMAIN d : j < k}) = i - 1]

\* the branch of the filter chain each transaction of DetectorTxs takes once
\* enriched, computed once
EnrichedBranchOf ==
    [id \in DetectorIds |->
        FilterChain([tx_hash |-> 0, height |-> 0,
                     outputs |-> EnrichedOutputs(DetectorTxs[id].outputs)])]

\* found_wasabi_cjs.json is enriched; the refiner loads both files
EnrichFound ==
    /\ prog = "pipeline"
    /\ d_pc = "written"
    /\ w_pc = "idle"
    /\ txs_inputs' = KeysInOrder(wasabi_txs)
    /\ w_pc' = "loop"
    /\ UNCHANGED <<prog, w_idx, metric_stats, filter_stats, disallowed_values, filtered_ids,
                   new_txs, warned, w_out, results, svars, dvars, hvars, evars>>

\* one iteration of the refiner's loop over txs_inputs
RefineFoundTx ==
    /\ prog = "pipeline"
    /\ w_pc = "loop"
    /\ w_idx < Len(txs_inputs)
    /\ LET tx_data == EnrichedRecord(txs_inputs[w_idx + 1])
           tx_id == tx_data.tx_hash
           branch == EnrichedBranchOf[scanned[tx_id].tx]
           filtered_ids_1 == IF branch = "none" THEN filtered_ids ELSE filtered_ids \cup {tx_id}
           cj_details == wasabi_txs[tx_id].cj.details
           d == Disposition(tx_id \in filtered_ids_1, cj_details, tx_data.height)
       IN  /\ filter_stats' = Bump(filter_stats, branch)
           /\ disallowed_values' = IF branch = "disallowed"
                                   THEN disallowed_values \cup {tx_id}
                                   ELSE disallowed_values
           /\ filtered_ids' = filtered_ids_1
           /\ metric_stats' = Bump(metric_stats, d.counter)
           /\ new_txs' = IF d.keep THEN DictSet(new_txs, tx_id, w_idx + 1) ELSE new_txs
    /\ w_idx' = w_idx + 1
    /\ UNCHANGED <<prog, w_pc, txs_inputs, warned, w_out, results, svars, dvars, hvars, evars>>

(***************************************************************************)
(* The specifications.                                                     *)
(***************************************************************************)
InitWasabi ==
    prog = "wasabi" /\ StartWasabi /\ IdleSamourai /\ IdleDetector /\ IdleHeuristics /\ IdleEnrich
InitSamourai ==
    prog = "samourai" /\ IdleWasabi /\ StartSamourai /\ IdleDetector /\ IdleHeuristics /\ IdleEnrich
InitDetector ==
    prog = "detector" /\ IdleWasabi /\ IdleSamourai /\ StartDetector /\ IdleHeuristics /\ IdleEnrich
InitHeuristics ==
    prog = "heuristics" /\ IdleWasabi /\ IdleSamourai /\ IdleDetector /\ StartHeuristics /\ IdleEnrich
InitEnrich ==
    prog = "enrich" /\ IdleWasabi /\ IdleSamourai /\ IdleDetector /\ IdleHeuristics /\ StartEnrich
InitPipeline ==
    prog = "pipeline" /\ IdleWasabi /\ IdleSamourai /\ StartDetector /\ IdleHeuristics /\ IdleEnrich
Init == InitWasabi \/ InitSamourai \/ InitDetector \/ InitHeuristics \/ InitEnrich \/ InitPipeline

NextWasabi == RefineWasabiTx \/ FinishWasabi
NextSamourai == BuildSamouraiDict \/ RefineSamouraiTx \/ FinishSamourai
NextDetector == ScanTx \/ ScanError \/ ScanFinish
NextHeuristics == ApplyHeuristics
NextEnrich == StartFetch \/ RequestReturns \/ GatherReturns \/ RequestRaises \/ DumpParsed
NextPipeline == NextDetector \/ EnrichFound \/ RefineFoundTx \/ FinishWasabi
Next == NextWasabi \/ NextSamourai \/ NextDetector \/ NextHeuristics \/ NextEnrich \/ NextPipeline

SpecWasabi == InitWasabi /\ [][NextWasabi]_vars
SpecSamourai == InitSamourai /\ [][NextSamourai]_vars
SpecDetector == InitDetector /\ [][NextDetector]_vars
SpecHeuristics == InitHeuristics /\ [][NextHeuristics]_vars
SpecEnrich == InitEnrich /\ [][NextEnrich]_vars
SpecPipeline == InitPipeline /\ [][NextPipeline]_vars
Spec == Init /\ [][Next]_vars

(***************************************************************************)
(* Properties of the Wasabi refiner (SpecWasabi).                          *)
(***************************************************************************)
\* a step of the refinement loop, and the record it processes
WasabiStep == w_pc = "loop" /\ w_idx' = w_idx + 1
StepId == txs_inputs[w_idx + 1]

\* which of the five filters match a record, each taken alone
MatchOf ==
    [id \in WasabiIds |->
        [gambling |-> tx_uses_gambling_address(tx_data_of(id)),
         disallowed |-> tx_uses_disallowed_values(tx_data_of(id)),
         reuse |-> tx_reuses_output_address(tx_data_of(id)),
         output_exact |-> tx_uses_exact_output_values(tx_data_of(id)),
         output_edge |-> tx_uses_edge_case_values(tx_data_of(id))]]
Caught(id) == \E f \in DOMAIN MatchOf[id] : MatchOf[id][f]

\* C1: after the loop the per-reason filtered counts (disallowed values,
\* gambling, reuse, output_exact, output_edge) add up to fp_filtered, and the
\* 'UNACCOUNTED FILTER' warning is not emitted, whatever the list of records.
C1_ReasonsSumToFiltered ==
    w_pc = "done" =>
        /\ Cardinality(disallowed_values) + filter_stats.gambling + filter_stats.reuse
             + filter_stats.output_exact + filter_stats.output_edge = metric_stats.fp_filtered
        /\ ~warned

\* C2: the filters are tried in the order gambling, disallowed value, address
\* reuse, exact value, edge case value; a step records the reason of the first
\* one in that order that matches the record, and nothing else.
C2_Priority == <<"gambling", "disallowed", "reuse", "output_exact", "output_edge">>
C2_FirstMatch(id) ==
    IF Caught(id)
    THEN C2_Priority[CHOOSE k \in DOMAIN C2_Priority :
                        /\ MatchOf[id][C2_Priority[k]]
                        /\ \A j \in 1..(k - 1) : ~MatchOf[id][C2_Priority[j]]]
    ELSE "none"
C2_FirstMatchWins ==
    [][WasabiStep =>
        LET first == C2_FirstMatch(StepId)
        IN  /\ \A r \in DOMAIN filter_stats :
                filter_stats'[r] = filter_stats[r] + (IF r = first THEN 1 ELSE 0)
            /\ disallowed_values' =
                    disallowed_values \cup (IF first = "disallowed" THEN {StepId} ELSE {})
            /\ filtered_ids' = filtered_ids \cup (IF first = "none" THEN {} ELSE {StepId})
      ]_vars
\* a record that matches both the gambling and the disallowed value filter was
\* processed and counted as gambling
C2_Witness ==
    /\ w_idx = 1
    /\ MatchOf[txs_inputs[1]].gambling /\ MatchOf[txs_inputs[1]].disallowed
    /\ filter_stats.gambling = 1
    /\ disallowed_values = {}

\* C3 as stated: a step counts the record as gambling iff some address in the
\* address set of its first output begins, ignoring case, with 1lucky or 1dice.
C3_IsGambling(address) ==
    \E prefix \in { <<"1","l","u","c","k","y">>, <<"1","d","i","c","e">> } :
        /\ Len(address) >= Len(prefix)
        /\ \A i \in 1..Len(prefix) : LowerChar(address[i]) = prefix[i]
C3_SomeAddressOfFirstOutput ==
    [id \in WasabiIds |->
        LET outputs == WasabiTxs[id].outputs
        IN  /\ outputs # <<>>
            /\ \E i \in DOMAIN outputs[1].address : C3_IsGambling(outputs[1].address[i])]
C3_FirstAddressMet ==
    [id \in WasabiIds |->
        LET all == AllAddresses(WasabiTxs[id].outputs)
        IN  all # <<>> /\ C3_IsGambling(all[1])]
C4_Expected(id) ==
    LET details == WasabiTxs[id].details
        height == WasabiTxs[id].height
    IN  IF Caught(id) THEN "fp_filtered"
        ELSE IF details = "false positive" THEN "fp_unfiltered"
        ELSE IF details = "coord address|heuristic" THEN "tp"
        ELSE IF details = "coord address" THEN "fn"
        ELSE IF 530500 <= height /\ height <= 609999 THEN "fp_unfiltered"
        ELSE "heuristic_positive"
C4_OneDisposition ==
    [][WasabiStep =>
        \A c \in DOMAIN metric_stats :
            metric_stats'[c] = metric_stats[c] + (IF c = C4_Expected(StepId) THEN 1 ELSE 0)
      ]_vars
\* two records found by the statistical heuristic alone that no filter caught,
\* one at height 609999 and one at height 610000, were processed
C4_Witness ==
    /\ w_idx = 2
    /\ \A i \in 1..2 : ~Caught(txs_inputs[i]) /\ WasabiTxs[txs_inputs[i]].details = "heuristic"
    /\ WasabiTxs[txs_inputs[1]].height = 609999
    /\ WasabiTxs[txs_inputs[2]].height = 610000
    /\ metric_stats.fp_unfiltered = 1
    /\ metric_stats.heuristic_positive = 1

\* C5 as stated: the output holds exactly the records no filter caught, and
\* the reported Final count is the number of entries of the output.
C5_OutputIsUnfiltered ==
    w_pc = "done" =>
        /\ w_out = { id \in Range(txs_inputs) : ~Caught(id) }
        /\ results.final = Cardinality(w_out)

\* C5 amended: the output holds exactly the records that no filter caught and
\* that were tallied tp, fn or heuristic_positive; the reported Final count is
\* the number of records minus the number of distinct filtered tx ids, which
\* is at least the number of entries of the output.
C5_OutputIsAccepted ==
    w_pc = "done" =>
        /\ w_out = { id \in Range(txs_inputs) :
                        C4_Expected(id) \in {"tp", "fn", "heuristic_positive"} }
        /\ results.final = Len(txs_inputs)
                            - Cardinality({ id \in Range(txs_inputs) : Caught(id) })
        /\ results.final >= Cardinality(w_out)
\* a run that ended with an unfiltered 'false positive' record left out of the
\* output and an accepted record in it
C5_Witness ==
    /\ w_pc = "done"
    /\ Len(txs_inputs) = 2
    /\ ~Caught(txs_inputs[1]) /\ WasabiTxs[txs_inputs[1]].details = "false positive"
    /\ w_out = {txs_inputs[2]}
    /\ results.final = 2

(***************************************************************************)
(* Properties of the Samourai refiner (SpecSamourai).                      *)
(***************************************************************************)
C6_IsRemix(v, sz) == v = sz
C6_IsPremix(v, sz) == sz < v /\ v <= sz + 110000
C6_Accept ==
    [id \in SamouraiIds |->
        LET inputs == SamouraiTxs[id].inputs
            outputs == SamouraiTxs[id].outputs
        IN  /\ Len(inputs) = 5
            /\ Len(outputs) = 5
            /\ \E sz \in {1000000, 5000000, 50000000} :
                /\ \A i \in DOMAIN outputs : outputs[i] = sz
                /\ LET remix == Cardinality({i \in DOMAIN inputs : C6_IsRemix(inputs[i], sz)})
                       premix == Cardinality({i \in DOMAIN inputs : C6_IsPremix(inputs[i], sz)})
                   IN  <<remix, premix>> \in {<<1, 4>>, <<2, 3>>, <<3, 2>>}]

\* C6: a processed record is accepted iff it has 5 inputs and 5 outputs, all
\* outputs equal one pool size sz of 1000000, 5000000, 50000000, and its
\* (remix, premix) split is (1,4), (2,3) or (3,2), an input being remix when
\* its value is sz and premix when sz < value <= sz + 110000.
C6_AcceptIffValidSplit ==
    \A k \in 1..s_idx :
        (raw_txs_w_inputs_dict[k] \in refined_txs) <=> C6_Accept[raw_txs_w_inputs_dict[k]]
\* a (1,4) record whose premix inputs sit on both ends of the premix range was
\* accepted and a (4,1) record was rejected
C6_Witness ==
    /\ s_idx = 2
    /\ SamouraiTxs[raw_txs_w_inputs_dict[1]].inputs
            = <<1000000, 1110000, 1000001, 1110000, 1000001>>
    /\ raw_txs_w_inputs_dict[1] \in refined_txs
    /\ SamouraiTxs[raw_txs_w_inputs_dict[2]].inputs
            = <<1000000, 1000000, 1000000, 1000000, 1110000>>
    /\ raw_txs_w_inputs_dict[2] \notin refined_txs

RECURSIVE C7_Concat(_)
C7_Concat(seqs) == IF seqs = <<>> THEN <<>> ELSE Head(seqs) \o C7_Concat(Tail(seqs))
\* the positions, in increasing order, of the inputs that satisfy P
C7_Positions(id, P(_, _)) ==
    LET inputs == SamouraiTxs[id].inputs
        sz == SamouraiTxs[id].outputs[1]
        pos == {i \in DOMAIN inputs : P(inputs[i], sz)}
    IN  [n \in 1..Cardinality(pos) |->
            CHOOSE i \in pos : Cardinality({j \in pos : j < i}) = n - 1]
C7_Neither(v, sz) == ~C6_IsRemix(v, sz) /\ ~C6_IsPremix(v, sz)

\* C7 as stated: the follow-up list holds, for the accepted records in order,
\* the outpoint (hash and index) referenced by every input that is neither
\* remix nor premix, and nothing for remix and premix inputs.
C7_OutpointsOfNeither ==
    [id \in SamouraiIds |->
        IF C6_Accept[id]
        THEN LET pos == C7_Positions(id, C7_Neither)
             IN  [n \in DOMAIN pos |-> samourai_potentials(id).tx.inputs[pos[n]]]
        ELSE <<>>]
C7_Tx0ListIsNeitherOutpoints ==
    tx0_txids = C7_Concat([k \in 1..s_idx |-> C7_OutpointsOfNeither[raw_txs_w_inputs_dict[k]]])

\* C7 amended: the follow-up list holds, for the accepted records in order,
\* one entry per premix input (the inputs whose value is no pool size) and
\* none per remix input; the entry is the transaction hash alone of the
\* outpoint the raw record gives for that input position.  Rejected records
\* contribute nothing.
C7_HashesOfPremix ==
    [id \in SamouraiIds |->
        IF C6_Accept[id]
        THEN LET pos == C7_Positions(id, C6_IsPremix)
             IN  [n \in DOMAIN pos |-> samourai_potentials(id).tx.inputs[pos[n]].hash]
        ELSE <<>>]
C7_Tx0ListIsPremixHashes ==
    tx0_txids = C7_Concat([k \in 1..s_idx |-> C7_HashesOfPremix[raw_txs_w_inputs_dict[k]]])
\* an accepted record with premix inputs at positions 1 and 2 and a rejected
\* record were processed: the list holds the two hashes of the first
C7_Witness ==
    /\ s_idx = 2
    /\ SamouraiTxs[raw_txs_w_inputs_dict[1]].inputs
            = <<1000001, 1110000, 1000000, 1000000, 1000000>>
    /\ ~C6_Accept[raw_txs_w_inputs_dict[2]]
    /\ tx0_txids = << samourai_potentials(raw_txs_w_inputs_dict[1]).tx.inputs[1].hash,
                      samourai_potentials(raw_txs_w_inputs_dict[1]).tx.inputs[2].hash >>

(***************************************************************************)
(* Properties of the Detector (SpecDetector).                              *)
(***************************************************************************)
\* the transaction and the height of the last call of is_coin_join
LastTx == DetectorTxs[scanned[Len(scanned)].tx]
LastBlockHeight == scanned[Len(scanned)].height

\* C8: for a non-coinbase transaction the height checks give details 'false
\* positive' with the kind kept when the kind is samourai and height < 570000
\* or the kind is wasabi and height < 530500, and change nothing otherwise.
C8_TemporalStep ==
    (scanned # <<>> /\ ~LastTx.coinbase) =>
        IF \/ (cj_pre.cj_type = "samourai" /\ LastBlockHeight < 570000)
           \/ (cj_pre.cj_type = "wasabi" /\ LastBlockHeight < 530500)
        THEN result = [cj_type |-> cj_pre.cj_type, details |-> "false positive"]
        ELSE result = cj_pre
\* a Wasabi match at height 530499 was rewritten, after a Samourai match at the
\* same height
C8_Witness ==
    /\ Len(scanned) = 2
    /\ ~LastTx.coinbase
    /\ LastBlockHeight = 530499
    /\ cj_pre = [cj_type |-> "wasabi", details |-> "coord address|heuristic"]
    /\ result = [cj_type |-> "wasabi", details |-> "false positive"]
    /\ 1 \in DOMAIN samourai_txs
    /\ samourai_txs[1].cj.details = "false positive"

\* the three heuristics, each taken alone
HeuristicsOf ==
    [id \in DetectorIds |->
        [samourai |-> is_potential_samourai_coin_join(DetectorTxs[id]),
         static |-> is_wasabi_coin_join_static_coord(DetectorTxs[id]),
         statistical |-> is_wasabi_coin_join_heuristic(DetectorTxs[id])]]

\* C9: for a non-coinbase transaction the Samourai heuristic decides first:
\* when it matches, the classification before the height checks is samourai /
\* 'heuristic' whatever the Wasabi heuristics say; otherwise it is wasabi with
\* 'coord address', 'heuristic' or 'coord address|heuristic' according to the
\* Wasabi heuristics that match, or kind none when neither does.  No
\* transaction is stored as both.
C9_SamouraiFirst ==
    /\ DOMAIN samourai_txs \cap DOMAIN wasabi_txs = {}
    /\ (scanned # <<>> /\ ~LastTx.coinbase) =>
        LET h == HeuristicsOf[scanned[Len(scanned)].tx]
        IN  /\ h.samourai => cj_pre = [cj_type |-> "samourai", details |-> "heuristic"]
            /\ (~h.samourai /\ h.static /\ h.statistical) =>
                    cj_pre = [cj_type |-> "wasabi", details |-> "coord address|heuristic"]
            /\ (~h.samourai /\ h.static /\ ~h.statistical) =>
                    cj_pre = [cj_type |-> "wasabi", details |-> "coord address"]
            /\ (~h.samourai /\ ~h.static /\ h.statistical) =>
                    cj_pre = [cj_type |-> "wasabi", details |-> "heuristic"]
            /\ (~h.samourai /\ ~h.static /\ ~h.statistical) => cj_pre.cj_type = None
            /\ (Len(scanned) \in DOMAIN samourai_txs) <=> h.samourai
            /\ (Len(scanned) \in DOMAIN wasabi_txs) <=> (~h.samourai /\ (h.static \/ h.statistical))
\* a transaction that matches the Samourai and the static coordinator
\* heuristic was classified samourai
C9_Witness ==
    /\ scanned # <<>>
    /\ ~LastTx.coinbase
    /\ HeuristicsOf[scanned[Len(scanned)].tx].samourai
    /\ HeuristicsOf[scanned[Len(scanned)].tx].static
    /\ cj_pre = [cj_type |-> "samourai", details |-> "heuristic"]
    /\ Len(scanned) \in DOMAIN samourai_txs

\* C10: a coinbase transaction is classified kind none, details 'coinbase',
\* whatever its inputs, outputs and height, and is stored as neither.
C10_Coinbase ==
    (scanned # <<>> /\ LastTx.coinbase) =>
        /\ result = [cj_type |-> None, details |-> "coinbase"]
        /\ Len(scanned) \notin DOMAIN samourai_txs
        /\ Len(scanned) \notin DOMAIN wasabi_txs
\* a coinbase transaction of Samourai shape below the first Samourai block
C10_Witness ==
    /\ scanned # <<>>
    /\ LastTx.coinbase
    /\ HeuristicsOf[scanned[Len(scanned)].tx].samourai
    /\ LastBlockHeight = 530499
    /\ result = [cj_type |-> None, details |-> "coinbase"]

(***************************************************************************)
(* Errors during the scan (SpecDetector).                                  *)
(***************************************************************************)
\* C16: an error raised while one transaction is decoded or classified
\* skips that transaction only: when the results are written, every other
\* transaction of the blocks in range has been classified.
C16_ErrorSkipsOneTransaction ==
    d_pc = "written" => Len(scanned) + (IF d_err THEN 1 ELSE 0) = d_total

(***************************************************************************)
(* Properties of the enrichment run (SpecEnrich).                          *)
(***************************************************************************)
\* C14: when one request of a batch fails, only that request is lost: once
\* the batch has returned, the record of every request that was answered is
\* in the enrichment result.
C14_AnsweredRequestsAreKept ==
    e_pc \in {"loop", "written"} =>
        \A tx_id \in e_responses : \E i \in DOMAIN txs_parsed : txs_parsed[i].tx_hash = tx_id

RECURSIVE C15_RecordsOf(_, _)
\* the records of the first b batches, the batches in failed contributing none
C15_RecordsOf(b, failed) ==
    IF b = 0 THEN <<>>
    ELSE C15_RecordsOf(b - 1, failed)
           \o (IF b \in failed THEN <<>>
               ELSE [i \in DOMAIN e_chunks[b] |-> [tx_hash |-> e_chunks[b][i][1]]])

\* a batch is started only when no request is pending and no session is open
C15_OneBatchAtATime ==
    e_requested' # e_requested => (e_pending = {} /\ e_session # "open")

\* the run ends with every tx id of the input requested and with exactly the
\* records of the batches that did not fail written, in batch order
C15_EndOfRun ==
    e_pc = "written" =>
        /\ e_requested = { e_txs_raw[i][1] : i \in DOMAIN e_txs_raw }
        /\ e_out = C15_RecordsOf(Len(e_chunks), e_log)

\* C15: batches are processed one after another (a batch is started only
\* after the previous one has returned and its session is closed); a failed
\* batch contributes no record and does not end the run: every later batch
\* is still requested and the run ends by writing the records of all the
\* batches that succeeded.
C15_BatchFailureIsContained == [][C15_OneBatchAtATime /\ C15_EndOfRun']_vars

\* a run that ended after its first batch failed with one request answered
\* and its second batch succeeded
C15_Witness ==
    /\ e_pc = "written"
    /\ 1 \in e_log
    /\ 2 \notin e_log
    /\ Len(e_chunks) = 2
    /\ \E i \in DOMAIN e_chunks[1] : e_chunks[1][i][1] \in e_responses
    /\ e_out # <<>>

RECURSIVE C17_Concat(_)
C17_Concat(batches) ==
    IF batches = <<>> THEN <<>> ELSE Head(batches) \o C17_Concat(Tail(batches))

\* ceil(n / size)
C17_Ceil(n, size) == CHOOSE c \in 0..n : c * size >= n /\ (c - 1) * size < n

C17_Size == IF e_size = <<>> THEN 1000 ELSE e_size[1]

\* C17: chunks(data, size) partitions data: for n ids and size >= 1 it
\* yields ceil(n / size) batches (none for n = 0), every batch has between 1
\* and size ids and only the last one may have fewer than size, every id is
\* in exactly one batch with its value, and the batches concatenated are
\* data in its key order; without a size argument the size is 1000.
C17_ChunksPartition ==
    e_pc = "written" =>
        /\ Len(e_chunks) = C17_Ceil(Len(e_txs_raw), C17_Size)
        /\ \A b \in DOMAIN e_chunks :
              /\ Len(e_chunks[b]) >= 1
              /\ Len(e_chunks[b]) <= C17_Size
              /\ b < Len(e_chunks) => Len(e_chunks[b]) = C17_Size
        /\ \A i \in DOMAIN e_txs_raw :
              Cardinality({ <<b, j>> \in (DOMAIN e_chunks) \X (1..MaxIds) :
                              /\ j \in DOMAIN e_chunks[b]
                              /\ e_chunks[b][j][1] = e_txs_raw[i][1] }) = 1
        /\ \A b \in DOMAIN e_chunks : \A j \in DOMAIN e_chunks[b] :
              \E i \in DOMAIN e_txs_raw : e_chunks[b][j] = e_txs_raw[i]
        /\ C17_Concat(e_chunks) = e_txs_raw
        /\ chunk_size(<<>>) = 1000

\* three ids in batches of two: a full batch and a smaller last one
C17_Witness ==
    /\ e_pc = "written"
    /\ Len(e_txs_raw) = 3
    /\ Len(e_chunks) = 2
    /\ Len(e_chunks[1]) = 2
    /\ Len(e_chunks[2]) = 1

(***************************************************************************)
(* The ledger of the Wasabi refiner (SpecWasabi).                          *)
(***************************************************************************)
C18_DetectorDetails == {"false positive", "coord address", "heuristic", "coord address|heuristic"}

\* the records processed so far all carry details the Detector produces
C18_ProcessedFromDetector ==
    \A i \in 1..w_idx : txs_raw(txs_inputs[i]).cj.details \in C18_DetectorDetails

\* the tx ids of the records processed so far are distinct
C18_ProcessedDistinct ==
    \A i, j \in 1..w_idx : i # j => txs_inputs[i] # txs_inputs[j]

C18_Balanced ==
    (w_pc \in {"loop", "done"} /\ C18_ProcessedFromDetector) =>
        /\ w_idx = metric_stats.fp_filtered + metric_stats.fp_unfiltered + metric_stats.tp
                     + metric_stats.fn + metric_stats.heuristic_positive
        /\ C18_ProcessedDistinct =>
              Cardinality(DOMAIN new_txs)
                 = metric_stats.tp + metric_stats.fn + metric_stats.heuristic_positive

C18_NoDecrease == \A k \in DOMAIN metric_stats : metric_stats'[k] >= metric_stats[k]

\* C18: at every point of the refinement loop, the records carrying details
\* the Detector produces, the number of records processed equals
\* fp_filtered + fp_unfiltered + tp + fn + heuristic_positive and, when the
\* tx ids processed are distinct, the size of the accepted output equals
\* tp + fn + heuristic_positive; no step decreases a counter.
C18_LedgerBalanced == [][C18_Balanced' /\ C18_NoDecrease]_vars

\* two distinct records processed, one accepted as fn and one tallied
\* fp_unfiltered
C18_Witness ==
    /\ w_pc = "loop"
    /\ w_idx = 2
    /\ txs_inputs[1] # txs_inputs[2]
    /\ metric_stats.fn = 1
    /\ metric_stats.fp_unfiltered = 1

(***************************************************************************)
(* Properties of the Detector's heuristics (SpecHeuristics).               *)
(***************************************************************************)
C11_PoolSizes == {1000000, 5000000, 50000000}

C11_Matches(tx) ==
    /\ tx.n_inputs = 5
    /\ Len(tx.outputs) = 5
    /\ \A i, j \in 1..5 : tx.outputs[i].value = tx.outputs[j].value
    /\ tx.outputs[1].value \in C11_PoolSizes

\* the transactions one change away from tx: one output value changed, or
\* the input count or the output count made 4 or 6
C11_Changed(tx) ==
    { [tx EXCEPT !.outputs[i].value = v] :
        i \in DOMAIN tx.outputs, v \in (C11_PoolSizes \cup {5000001}) \ {tx.outputs[1].value} }
    \cup { [tx EXCEPT !.n_inputs = n] : n \in {4, 6} }
    \cup { [tx EXCEPT !.outputs = SubSeq(tx.outputs, 1, 4)],
           [tx EXCEPT !.outputs = Append(tx.outputs, tx.outputs[1])] }

\* C11: the Samourai heuristic matches a transaction if and only if it has
\* exactly 5 inputs and exactly 5 outputs, the 5 output values are identical
\* and the common value is 1000000, 5000000 or 50000000; a matching
\* transaction with one output value changed, or with 4 or 6 inputs or
\* outputs, does not match.
C11_SamouraiIffFiveEqualPoolOutputs ==
    h_pc = "returned" =>
        /\ h_res.samourai <=> C11_Matches(h_tx)
        /\ h_res.samourai =>
              \A changed \in C11_Changed(h_tx) : ~is_potential_samourai_coin_join(changed)

C11_Witness ==
    /\ h_pc = "returned"
    /\ h_res.samourai
    /\ h_tx.outputs[1].value = 5000000

C12_Count(tx, v) == Cardinality({i \in DOMAIN tx.outputs : tx.outputs[i].value = v})

\* the first value, in output order, that reaches the maximum count
C12_M(tx) ==
    LET first == CHOOSE i \in DOMAIN tx.outputs :
                    /\ \A j \in DOMAIN tx.outputs :
                          C12_Count(tx, tx.outputs[j].value) <= C12_Count(tx, tx.outputs[i].value)
                    /\ \A j \in 1..(i - 1) :
                          C12_Count(tx, tx.outputs[j].value) < C12_Count(tx, tx.outputs[i].value)
    IN  tx.outputs[first].value

C12_Matches(tx) ==
    /\ Len(tx.outputs) >= 10
    /\ tx.n_inputs >= C12_Count(tx, C12_M(tx))
    /\ C12_Count(tx, C12_M(tx)) >= 10
    /\ C12_M(tx) - 10000000 <= 2000000
    /\ 10000000 - C12_M(tx) <= 2000000
    /\ \E i \in DOMAIN tx.outputs : C12_Count(tx, tx.outputs[i].value) = 1
    /\ Cardinality({tx.outputs[i].value : i \in DOMAIN tx.outputs}) >= 3

C13_Coordinators ==
    { <<"b","c","1","q","s","6","0","4","c","7","j","v","6","a","m","k","4","c","x","q","l",
        "n","v","u","x","v","2","6","h","v","3","e","4","8","c","d","s","4","m","0","e","w">>,
      <<"b","c","1","q","a","2","4","t","s","g","c","h","v","u","x","s","a","c","c","p","8",
        "v","r","n","k","f","d","8","5","h","r","c","p","a","f","g","2","0","k","m","j","w">> }

\* a and b are equal up to the case of their letters
C13_SameIgnoringCase(a, b) ==
    /\ Len(a) = Len(b)
    /\ \A i \in DOMAIN a :
          \/ a[i] = b[i]
          \/ \E k \in DOMAIN UpperChars :
                {a[i], b[i]} = {UpperChars[k], LowerChars[k]}

C13_IsCoordinator(address) == \E c \in C13_Coordinators : C13_SameIgnoringCase(address, c)

C13_Matches(tx) ==
    /\ Len(tx.outputs) >= 3
    /\ \E i \in DOMAIN tx.outputs : \E a \in DOMAIN tx.outputs[i].addresses :
          C13_IsCoordinator(tx.outputs[i].addresses[a])
    /\ \E i \in DOMAIN tx.outputs : C12_Count(tx, tx.outputs[i].value) >= 3

\* tx with every coordinator address removed from its outputs
C13_WithoutCoordinator(tx) ==
    [tx EXCEPT !.outputs =
        [i \in DOMAIN tx.outputs |->
            [tx.outputs[i] EXCEPT !.addresses =
                SelectSeq(tx.outputs[i].addresses, LAMBDA a : ~C13_IsCoordinator(a))]]]

\* C13: the Wasabi static-coordinator heuristic matches a transaction if and
\* only if it has at least 3 outputs, some output address equals a known
\* coordinator address up to letter case, and some output value occurs 3 or
\* more times; a matching transaction with the coordinator address removed
\* does not match.
C13_StaticIffCoordinatorAndThreeEqual ==
    h_pc = "returned" =>
        /\ h_res.static_coord <=> C13_Matches(h_tx)
        /\ h_res.static_coord => ~is_wasabi_coin_join_static_coord(C13_WithoutCoordinator(h_tx))

\* a match on a coordinator address that is not written in lower case
C13_Witness ==
    /\ h_pc = "returned"
    /\ h_res.static_coord
    /\ \A i \in DOMAIN h_tx.outputs : \A a \in DOMAIN h_tx.outputs[i].addresses :
          h_tx.outputs[i].addresses[a] \notin C13_Coordinators

(***************************************************************************)
(* Detector and Wasabi refiner composed (SpecPipeline).                    *)
(***************************************************************************)
\* a step of the refiner's loop, and the height of the record it processes
C19_RefineStep == w_pc = "loop" /\ w_idx' = w_idx + 1
C19_StepHeight == scanned[txs_inputs[w_idx + 1]].height

C19_Tallied(counter) == metric_stats'[counter] > metric_stats[counter]

\* what the Detector found with details 'heuristic' is at height 530500 or above
C19_HeuristicFromFirstBlock ==
    \A txid \in DOMAIN wasabi_txs :
        wasabi_txs[txid].cj.details = "heuristic" => wasabi_txs[txid].tx.block_height >= 530500

\* the accepted output holds no transaction below 530500, and none below
\* 610000 that was found by the statistical heuristic alone
C19_AcceptedHeights ==
    \A txid \in (DOMAIN new_txs) \cup w_out :
        /\ scanned[txid].height >= 530500
        /\ wasabi_txs[txid].cj.details = "heuristic" => scanned[txid].height >= 610000

\* C19: Detector and Wasabi refiner composed on the same transactions, the
\* enriched height being the block height: a transaction whose details is
\* 'heuristic' has height >= 530500; a transaction tallied
\* heuristic_positive has height >= 610000; no transaction of height below
\* 530500 is tallied tp, fn or heuristic_positive or put in the accepted
\* output.
C19_HeightsOfAccepted ==
    [][ /\ C19_HeuristicFromFirstBlock'
        /\ C19_AcceptedHeights'
        /\ C19_RefineStep =>
              /\ C19_Tallied("heuristic_positive") => C19_StepHeight >= 610000
              /\ (C19_Tallied("tp") \/ C19_Tallied("fn") \/ C19_Tallied("heuristic_positive"))
                    => C19_StepHeight >= 530500 ]_vars

\* a run in which a transaction found below 530500 went through the filters
\* and was tallied fp_unfiltered, and another one was tallied
\* heuristic_positive and accepted
C19_Witness ==
    /\ prog = "pipeline"
    /\ w_pc = "done"
    /\ metric_stats.heuristic_positive = 1
    /\ metric_stats.fp_unfiltered = 1
    /\ \E txid \in DOMAIN wasabi_txs :
          /\ wasabi_txs[txid].tx.block_height = 530499
          /\ wasabi_txs[txid].cj.details = "false positive"
          /\ txid \notin w_out
    /\ w_out # {}

====
